---- MODULE Spec2Model ----
(***************************************************************************)
(* Model of static/main.js: the browser-side controller of the bulk-SMS    *)
(* workflow (upload -> preview -> select -> send -> poll progress).        *)
(*                                                                         *)
(* Every event-loop task of the page is one action: a click handler runs   *)
(* up to its first await on a network call, and the continuation after the *)
(* await runs when the response is delivered.  alert() and confirm() are   *)
(* modal and block the event loop, so they are part of the step that shows *)
(* them.  JavaScript positions are 0-based; the sequences here are 1-based.*)
(* Strings that are HTML-escaped are sequences of one-character strings.   *)
(*                                                                         *)
(* The backend behind /upload, /preview, /send and /progress is outside    *)
(* main.js: each of its answers is a choice among a success body, a        *)
(* non-success body and a failed fetch.  lastTask records what the script  *)
(* run by a step did towards the outside (dialogs, request), so that       *)
(* properties can speak of "the click that ..." and "the request that ...".*)
(***************************************************************************)
EXTENDS Integers, Sequences, FiniteSets, TLC

\* ------------------------------------------------------------------ bounds
\* Handler runs that issue /upload or /send, over the whole behaviour.
MaxRuns == 3
\* Interval callbacks run, over all pollers.
MaxTicks == 2

\* ------------------------------------------------------- JavaScript values
NULL == [js |-> "null"]
UNDEFINED == [js |-> "undefined"]

\* previewJobId = null (line 2); job identifiers are 1, 2, ...
NoJob == 0

\* Boolean(v) for the values of this page: rows are objects (truthy).
Boolean(v) == v \notin {NULL, UNDEFINED}

\* Array.prototype.filter(Boolean)
RECURSIVE FilterBoolean(_)
FilterBoolean(s) ==
  IF s = <<>> THEN <<>>
  ELSE IF Boolean(Head(s)) THEN <<Head(s)>> \o FilterBoolean(Tail(s))
       ELSE FilterBoolean(Tail(s))

\* data[i] of a JavaScript array: undefined outside the array
Index(data, i) == IF i \in DOMAIN data THEN data[i] ELSE UNDEFINED

Range(s) == {s[i] : i \in DOMAIN s}

\* String.prototype.replace(/c/g, by) on a sequence of characters
RECURSIVE ReplaceAll(_, _, _)
ReplaceAll(s, c, by) ==
  IF s = <<>> THEN <<>>
  ELSE (IF Head(s) = c THEN by ELSE <<Head(s)>>) \o ReplaceAll(Tail(s), c, by)

\* escapeHtml (line 37): & first, then <; nothing else is replaced
escapeHtml(s) ==
  LET str == IF s = <<>> THEN <<>> ELSE s   \* (s||""): "" is the only falsy string
  IN ReplaceAll(ReplaceAll(str, "&", <<"&", "a", "m", "p", ";">>),
                "<", <<"&", "l", "t", ";">>)

\* ------------------------------------------------------------- environment
\* The files the user can pick and what the backend parses out of each.
NoFile == "none"
Files == {"f1", "f2"}

Row(n, p) == [fullname |-> n, phone |-> p]

FilePreview(f) ==
  IF f = "f1"
  THEN << Row(<<"A">>, <<"1">>), Row(<<"<", "s", ">">>, <<"2">>), Row(<<"&">>, <<"3">>) >>
  ELSE << Row(<<"&">>, <<"3">>) >>

\* A fetch comes to a success response with a JSON body (the ...Ok actions),
\* a non-success response with a JSON body (...Err), or a rejection: the
\* network fails, or res.json() cannot decode the body (...Throw, ...Reject).

\* The `error` field of a non-success body; "" when the field is missing.
ErrorTexts == {"", "bad request"}

\* What the message box can hold.
Messages == {"", "hi"}

\* The backend's progress of a send job (ProgressState), as /progress reports it.
Progress(status, percent, sent, failed) ==
  [status |-> status, percent |-> percent, sent |-> sent, failed |-> failed, total |-> 5]

ProgressPath ==
  << Progress("pending", 0, 0, 0), Progress("running", 40, 2, 0),
     Progress("running", 80, 4, 0), Progress("completed", 100, 5, 0) >>

\* A job that fails is reported failed with one recipient not reached.
ProgressFailed == Progress("failed", 80, 4, 1)

VARIABLES
  previewJobId,      \* line 2
  previewData,       \* line 3
  table,             \* #previewTable tbody: one [checked, fullname, phone] per <tr>
  previewAreaShown,  \* #previewArea display
  fileInput,         \* #fileInput: the chosen file, or NoFile
  messageBox,        \* #messageBox value
  lastTask,          \* what the script task of the last step did (NoTask: none ran)
  uploads,           \* the runs of the upload click handler that issued /upload
  sends,             \* the runs of startSend that issued /send
  progressShown,     \* #progressContainer display
  fill,              \* #progressFill width and text: <<>> or <<percent>>
  progressText,      \* #progressText textContent
  timers,            \* per send run, the interval of its pollProgress
  jobs,              \* backend: the progress each send job last reported
  fetches,           \* the /progress requests in flight
  issued,            \* per send run, the number of /progress requests issued
  observed           \* per send run, the terminal outcomes its poller has seen

previewVars == <<previewJobId, previewData, table, previewAreaShown>>
inputVars == <<fileInput, messageBox>>
displayVars == <<progressShown, fill, progressText>>
pollVars == <<timers, jobs, fetches, issued, observed>>

vars == <<previewJobId, previewData, table, previewAreaShown, fileInput, messageBox,
          lastTask, uploads, sends,
          progressShown, fill, progressText, timers, jobs, fetches, issued, observed>>

\* ------------------------------------------------------------------ helpers
NoRequest == [url |-> "none"]

\* What the script task of a step did towards the outside: the handler that
\* ran, the text of the alert() it showed ("" when none), the answer to the
\* confirm() it showed ("none" when none) and the request it issued.
Did(event, alert, confirm, request) ==
  [event |-> event, alert |-> alert, confirm |-> confirm, request |-> request]

\* A step of the user or of the backend runs no script of the page.
NoTask == Did("none", "", "none", NoRequest)

\* j.error || "unknown" (lines 14, 71)
ErrorLabel(e) == IF e = "" THEN "unknown" ELSE e

\* Mutant of populatePreviewTable: the rows are appended in reverse order.
populateReversed(data) ==
  [i \in 1..Len(data) |->
     [checked |-> FALSE,
      fullname |-> escapeHtml(data[Len(data) + 1 - i].fullname),
      phone |-> escapeHtml(data[Len(data) + 1 - i].phone)]]

\* Mutant of populatePreviewTable: tbody is not emptied (line 27 left out), the
\* rows of the previous preview stay with their checkboxes as they are.
populateKeepingRows(data) ==
  table \o [i \in 1..Len(data) |->
             [checked |-> FALSE,
              fullname |-> escapeHtml(data[i].fullname),
              phone |-> escapeHtml(data[i].phone)]]

\* populatePreviewTable (lines 24-35): tbody is emptied and one row with an
\* unchecked checkbox and the escaped texts is appended per element of data.
populatePreviewTable(data) ==
  [i \in 1..Len(data) |->
     [checked |-> FALSE,
      fullname |-> escapeHtml(data[i].fullname),
      phone |-> escapeHtml(data[i].phone)]]

\* Mutant of SetAllChecked: the last checkbox is left as it is.
SetAllButLastChecked(t, v) ==
  [i \in DOMAIN t |-> IF i < Len(t) THEN [t[i] EXCEPT !.checked = v] ELSE t[i]]

\* forEach(cb => cb.checked = v) (lines 40, 43)
SetAllChecked(t, v) == [i \in DOMAIN t |-> [t[i] EXCEPT !.checked = v]]

\* Mutants of TargetAt: the position is off by one; the row is read back
\* from the rendered (escaped) cells instead of previewData.
TargetAtOffByOne(data, t, i) == IF t[i].checked THEN Index(data, i + 1) ELSE NULL
TargetAtFromTable(data, t, i) ==
  IF t[i].checked THEN Row(t[i].fullname, t[i].phone) ELSE NULL

\* The element that boxes.map yields for the checkbox at position i (lines 49-52)
TargetAt(data, t, i) == IF t[i].checked THEN Index(data, i) ELSE NULL

\* Mutant of gatherTargetsFromSelection: the `all` argument is ignored.
gatherIgnoringAll(all, data, t) ==
  FilterBoolean([i \in 1..Len(t) |-> TargetAt(data, t, i)])

\* gatherTargetsFromSelection (lines 46-54)
gatherTargetsFromSelection(all, data, t) ==
  IF all THEN data
  ELSE FilterBoolean([i \in 1..Len(t) |-> TargetAt(data, t, i)])

\* Mutant of MessageMissing: the message is not validated.
MessageNeverMissing(message) == FALSE

\* !message (line 58)
MessageMissing(message) == message = ""

\* Mutant of NoFileChosen: the file selection is not validated.
FileAlwaysChosen(f) == FALSE

\* !fileInput.files.length (line 7)
NoFileChosen(f) == f = NoFile

\* !targets.length (line 95)
NoTargets(targets) == Len(targets) = 0

\* targets.length ? targets : previewData (line 97)
TargetsOrAll(targets, data) == IF Len(targets) # 0 THEN targets ELSE data

\* prev.preview || [] (line 20); a body without the field gives []
PreviewOrEmpty(body) == IF "preview" \in DOMAIN body THEN body.preview ELSE <<>>

\* The JSON body of a /preview response for the job of upload run k
PreviewResponse(k, outcome) ==
  IF outcome = "ok" THEN [preview |-> FilePreview(uploads[k].file)]
  ELSE [error |-> "no such job"]

\* ------------------------------------------------------------------- Init
Init ==
  /\ previewJobId = NoJob
  /\ previewData = <<>>
  /\ table = <<>>
  /\ previewAreaShown = FALSE
  /\ fileInput = NoFile
  /\ messageBox = ""
  /\ lastTask = NoTask
  /\ uploads = <<>>
  /\ sends = <<>>
  /\ progressShown = FALSE
  /\ fill = <<>>
  /\ progressText = <<>>
  /\ timers = <<>>
  /\ jobs = <<>>
  /\ fetches = {}
  /\ issued = <<>>
  /\ observed = <<>>

\* ------------------------------------------------------------ user input
PickFile ==
  /\ \E f \in Files \cup {NoFile} : fileInput' = f
  /\ lastTask' = NoTask
  /\ UNCHANGED <<previewVars, messageBox, uploads, sends, displayVars, pollVars>>

TypeMessage ==
  /\ \E m \in Messages : messageBox' = m
  /\ lastTask' = NoTask
  /\ UNCHANGED <<previewVars, fileInput, uploads, sends, displayVars, pollVars>>

ToggleCheckbox ==
  /\ \E i \in DOMAIN table : table' = [table EXCEPT ![i].checked = ~table[i].checked]
  /\ lastTask' = NoTask
  /\ UNCHANGED <<previewJobId, previewData, previewAreaShown, inputVars, uploads, sends, displayVars, pollVars>>

\* lines 39-41
SelectAll ==
  /\ table' = SetAllChecked(table, TRUE)
  /\ lastTask' = Did("selectAllBtn", "", "none", NoRequest)
  /\ UNCHANGED <<previewJobId, previewData, previewAreaShown, inputVars, uploads, sends, displayVars, pollVars>>

\* lines 42-44
DeselectAll ==
  /\ table' = SetAllChecked(table, FALSE)
  /\ lastTask' = Did("deselectAllBtn", "", "none", NoRequest)
  /\ UNCHANGED <<previewJobId, previewData, previewAreaShown, inputVars, uploads, sends, displayVars, pollVars>>

\* ---------------------------------------------------------------- upload
\* lines 5-7: click with no file chosen
ClickUploadNoFile ==
  /\ NoFileChosen(fileInput)
  /\ lastTask' = Did("uploadBtn", "Pick an Excel file first", "none", NoRequest)
  /\ UNCHANGED <<previewVars, inputVars, uploads, sends, displayVars, pollVars>>

\* lines 5-11: click with a file chosen; POST /upload is issued
ClickUpload ==
  /\ ~NoFileChosen(fileInput)
  /\ Len(uploads) + Len(sends) < MaxRuns
  /\ uploads' = Append(uploads, [file |-> fileInput, pc |-> "upload"])
  /\ lastTask' = Did("uploadBtn", "", "none", [url |-> "/upload", file |-> fileInput])
  /\ UNCHANGED <<previewVars, inputVars, sends, displayVars, pollVars>>

\* lines 11-19: the /upload response of run k is a success; the backend names
\* the job after the run (job_id = k); GET /preview/{job_id} is issued
UploadOk ==
  \E k \in DOMAIN uploads :
    /\ uploads[k].pc = "upload"
    /\ previewJobId' = k
    /\ uploads' = [uploads EXCEPT ![k].pc = "preview"]
    /\ lastTask' = Did("uploadResponse", "", "none", [url |-> "/preview", job |-> k])
    /\ UNCHANGED <<previewData, table, previewAreaShown, inputVars, sends, displayVars, pollVars>>

\* lines 13-16: the /upload response of run k is a non-success with a JSON body
UploadErr ==
  \E k \in DOMAIN uploads, e \in ErrorTexts :
    /\ uploads[k].pc = "upload"
    /\ uploads' = [uploads EXCEPT ![k].pc = "end"]
    /\ lastTask' = Did("uploadError", "Upload error: " \o ErrorLabel(e), "none", NoRequest)
    /\ UNCHANGED <<previewVars, inputVars, sends, displayVars, pollVars>>

\* lines 11-12: fetch rejects or res.json() throws; the handler ends there
UploadThrow ==
  \E k \in DOMAIN uploads :
    /\ uploads[k].pc = "upload"
    /\ uploads' = [uploads EXCEPT ![k].pc = "end"]
    /\ lastTask' = Did("uploadReject", "", "none", NoRequest)
    /\ UNCHANGED <<previewVars, inputVars, sends, displayVars, pollVars>>

\* lines 19-21: the /preview response of run k arrives with a JSON body,
\* success or not (res.ok is not looked at)
PreviewBody(outcome) ==
  \E k \in DOMAIN uploads :
    /\ uploads[k].pc = "preview"
    /\ previewData' = PreviewOrEmpty(PreviewResponse(k, outcome))
    /\ table' = populatePreviewTable(previewData')
    /\ previewAreaShown' = TRUE
    /\ uploads' = [uploads EXCEPT ![k].pc = "end"]
    /\ lastTask' = Did(IF outcome = "ok" THEN "previewResponse" ELSE "previewError", "", "none", NoRequest)
    /\ UNCHANGED <<previewJobId, inputVars, sends,
                   displayVars, pollVars>>

PreviewOk == PreviewBody("ok")
PreviewErr == PreviewBody("err")

\* line 19: fetch rejects or .json() throws; the handler ends there
PreviewThrow ==
  \E k \in DOMAIN uploads :
    /\ uploads[k].pc = "preview"
    /\ uploads' = [uploads EXCEPT ![k].pc = "end"]
    /\ lastTask' = Did("previewReject", "", "none", NoRequest)
    /\ UNCHANGED <<previewVars, inputVars, sends, displayVars, pollVars>>

\* ------------------------------------------------------------------ send
\* The /send request that startSend issues (lines 60-69)
SendRequest(message, personalize, targets) ==
  [url |-> "/send",
   body |-> [message |-> message, personalize |-> personalize, targets |-> targets]]

\* startSend up to its await (lines 56-69), called by the click handler of
\* trigger `via` after a confirm() answered `confirm`
startSend(targets, personalize, via, confirm) ==
  IF MessageMissing(messageBox)
  THEN /\ lastTask' = Did(via, "Please write a message", confirm, NoRequest)
       /\ UNCHANGED <<sends, timers, jobs, issued, observed>>
  ELSE /\ Len(uploads) + Len(sends) < MaxRuns
       /\ sends' = Append(sends, "send")
       /\ timers' = Append(timers, "none")
       /\ jobs' = Append(jobs, [status |-> "none"])
       /\ issued' = Append(issued, 0)
       /\ observed' = Append(observed, {})
       /\ lastTask' = Did(via, "", confirm, SendRequest(messageBox, personalize, targets))

\* Mutant of ReturnsEarly: the answer to the confirm() is ignored.
NeverReturnsEarly(targets, answer) == FALSE

\* if(!confirm(...)) return (line 95): the dialog is shown when nothing is
\* gathered, and the handler returns when the user declines
ReturnsEarly(targets, answer) == NoTargets(targets) /\ ~answer

ConfirmShown(targets, answer) ==
  IF NoTargets(targets) THEN (IF answer THEN "yes" ELSE "no") ELSE "none"

\* lines 93-95: send-selected, nothing gathered, the user declines
ClickSendSelectedDeclined ==
  LET targets == gatherTargetsFromSelection(FALSE, previewData, table)
  IN /\ ReturnsEarly(targets, FALSE)
     /\ lastTask' = Did("sendSelectedBtn", "", ConfirmShown(targets, FALSE), NoRequest)
     /\ UNCHANGED <<previewVars, inputVars, uploads, sends, displayVars, pollVars>>

\* lines 93-98: send-selected going on to startSend; #personalizeToggle is
\* read here and nowhere else matters, so its state is drawn at the click
ClickSendSelected ==
  \E answer \in BOOLEAN, personalize \in BOOLEAN :
    LET targets == gatherTargetsFromSelection(FALSE, previewData, table)
    IN /\ ~ReturnsEarly(targets, answer)
       /\ startSend(TargetsOrAll(targets, previewData), personalize,
                    "sendSelectedBtn", ConfirmShown(targets, answer))
       /\ UNCHANGED <<previewVars, inputVars, uploads, displayVars, fetches>>

\* lines 100-103
ClickSendAll ==
  /\ \E personalize \in BOOLEAN : startSend(previewData, personalize, "sendAllBtn", "none")
  /\ UNCHANGED <<previewVars, inputVars, uploads, displayVars, fetches>>

\* setInterval (line 80) and clearInterval (lines 83, 88) on the interval of
\* send run k; clearing a cleared interval does nothing
setInterval(tm, k) == [tm EXCEPT ![k] = "live"]
clearInterval(tm, k) == [tm EXCEPT ![k] = "cleared"]

\* Mutant of SendAborts: the non-success answer is not looked at.
SendNeverAborts(ok) == FALSE

\* !res.ok (line 71)
SendAborts(ok) == ~ok

\* lines 70-74 and 77-80: the /send response of run k arrives with a JSON
\* body, res.ok being `ok` and the body's error field `e`.  On a non-success
\* the error is shown and startSend returns; otherwise the backend has
\* created the job, the progress region is shown and the poller of the job
\* starts.
SendBody(ok, e) ==
  \E k \in DOMAIN sends :
    /\ sends[k] = "send"
    /\ sends' = [sends EXCEPT ![k] = "end"]
    /\ IF SendAborts(ok)
       THEN /\ lastTask' = Did("sendError", "Send error: " \o ErrorLabel(e), "none", NoRequest)
            /\ UNCHANGED <<progressShown, timers, jobs>>
       ELSE /\ jobs' = [jobs EXCEPT ![k] = ProgressPath[1]]
            /\ progressShown' = TRUE
            /\ timers' = setInterval(timers, k)
            /\ lastTask' = Did(IF ok THEN "sendResponse" ELSE "sendError", "", "none", NoRequest)
    /\ UNCHANGED <<previewVars, inputVars, uploads, fill,
                   progressText, fetches, issued, observed>>

SendOk == SendBody(TRUE, "")

\* line 71: the /send response of run k is a non-success with a JSON body
SendErr == \E e \in ErrorTexts : SendBody(FALSE, e)

\* lines 65-70: fetch rejects or res.json() throws; startSend ends there
SendThrow ==
  \E k \in DOMAIN sends :
    /\ sends[k] = "send"
    /\ sends' = [sends EXCEPT ![k] = "end"]
    /\ lastTask' = Did("sendReject", "", "none", NoRequest)
    /\ UNCHANGED <<previewVars, inputVars, uploads,
                   displayVars, pollVars>>

\* -------------------------------------------------------- progress poller
RECURSIVE Sum(_)
Sum(s) == IF s = <<>> THEN 0 ELSE Head(s) + Sum(Tail(s))

NoResponse == [kind |-> "none"]

\* The success response to a /progress request for a job at progress q
ProgressResponse(q) == [kind |-> "ok", body |-> q]

\* j.status === "completed" || j.status === "failed" (line 87)
IsTerminalStatus(status) == status = "completed" \/ status = "failed"

\* The text of line 86
StatusText(j) == <<"Status", j.status, "Sent", j.sent, j.total, "Failed", j.failed>>

\* The text of line 83
FetchErrorText == <<"Error fetching progress">>

\* The terminal outcomes of the Progress Poller's state machine: a terminal
\* status, a non-success response, a rejected fetch
Saw(obs, k, what) == [obs EXCEPT ![k] = @ \cup what]

\* lines 80-81: the interval of send run k fires; GET /progress/{jobId} is issued
Tick ==
  \E k \in DOMAIN timers :
    /\ timers[k] = "live"
    /\ Sum(issued) < MaxTicks
    /\ fetches' = fetches \cup {[job |-> k, n |-> issued[k] + 1, res |-> NoResponse]}
    /\ issued' = [issued EXCEPT ![k] = @ + 1]
    /\ lastTask' = Did("tick", "", "none", [url |-> "/progress", job |-> k])
    /\ UNCHANGED <<previewVars, inputVars, uploads, sends,
                   displayVars, timers, jobs, observed>>

\* The progress a send job can have come to, from progress p on: further
\* along pending -> running -> running -> completed, or failed if it had not
\* completed.
Later(p) ==
  IF p = ProgressFailed THEN {ProgressFailed}
  ELSE LET i == CHOOSE j \in DOMAIN ProgressPath : ProgressPath[j] = p
       IN {ProgressPath[j] : j \in i..Len(ProgressPath)}
          \cup (IF i < Len(ProgressPath) THEN {ProgressFailed} ELSE {})

\* backend: a /progress request is answered from the progress the job has
\* come to at that moment, which is at or after what it last reported (a
\* request that fails carries nothing of the job, see ProgressErr and
\* ProgressReject)
BackendServe ==
  \E f \in fetches :
    \E q \in Later(jobs[f.job]) :
      /\ f.res = NoResponse
      /\ jobs' = [jobs EXCEPT ![f.job] = q]
      /\ fetches' = (fetches \ {f}) \cup {[f EXCEPT !.res = ProgressResponse(q)]}
      /\ lastTask' = NoTask
      /\ UNCHANGED <<previewVars, inputVars, uploads, sends, displayVars, timers,
                     issued, observed>>

\* lines 82-89: a success response of the poller of send run f.job is handled
ProgressOk ==
  \E f \in fetches :
    /\ f.res.kind = "ok"
    /\ fill' = <<f.res.body.percent>>
    /\ progressText' = StatusText(f.res.body)
    /\ timers' = IF IsTerminalStatus(f.res.body.status)
                 THEN clearInterval(timers, f.job) ELSE timers
    /\ observed' = Saw(observed, f.job, {f.res.body.status} \cap {"completed", "failed"})
    /\ fetches' = fetches \ {f}
    /\ lastTask' = Did("progressResponse", "", "none", NoRequest)
    /\ UNCHANGED <<previewVars, inputVars, uploads, sends,
                   progressShown, jobs, issued>>

\* line 83: a non-success response with a JSON body is handled
ProgressErr ==
  \E f \in fetches :
    /\ f.res = NoResponse
    /\ progressText' = FetchErrorText
    /\ timers' = clearInterval(timers, f.job)
    /\ observed' = Saw(observed, f.job, {"error"})
    /\ fetches' = fetches \ {f}
    /\ lastTask' = Did("progressError", "", "none", NoRequest)
    /\ UNCHANGED <<previewVars, inputVars, uploads, sends,
                   progressShown, fill, jobs, issued>>

\* lines 81-82: fetch rejects or res.json() throws; the callback ends there
\* with nothing caught
ProgressReject ==
  \E f \in fetches :
    /\ f.res = NoResponse
    /\ observed' = Saw(observed, f.job, {"reject"})
    /\ fetches' = fetches \ {f}
    /\ lastTask' = Did("progressReject", "", "none", NoRequest)
    /\ UNCHANGED <<previewVars, inputVars, uploads, sends,
                   displayVars, timers, jobs, issued>>

\* ------------------------------------------------------------------ claims
SendButtons == {"sendSelectedBtn", "sendAllBtn"}

\* The poller of send run k is the only one that was ever started.
OnlyPoller(k) == \A j \in DOMAIN timers \ {k} : timers[j] = "none"

\* The positions of the checked checkboxes, and the rows of previewData at
\* those positions in their original order.
CheckedAt == {i \in DOMAIN table : table[i].checked}

RECURSIVE RowsAt(_, _, _)
RowsAt(data, at, i) ==
  IF i > Len(data) THEN <<>>
  ELSE (IF i \in at THEN <<data[i]>> ELSE <<>>) \o RowsAt(data, at, i + 1)

CheckedRows == RowsAt(previewData, CheckedAt, 1)

\* C1: for a job that goes pending -> running(40) -> running(80) -> completed,
\* the poller issues no /progress request once it has processed the completed
\* response, and from then on the displayed percent is 100, whatever response
\* arrives later.
C1_StopsAndShows100 ==
  [][\A k \in DOMAIN observed :
       /\ "completed" \in observed[k] => issued'[k] = issued[k]
       /\ ("completed" \in observed'[k] /\ OnlyPoller(k)) => fill' = <<100>>]_vars

\* C2: once a /progress fetch of a poller has failed (a non-success response,
\* or a rejected fetch or undecodable body), the poller is done: no /progress
\* request is issued for that job afterwards.
C2_FailureHaltsPolling ==
  [][\A k \in DOMAIN observed :
       (observed[k] \cap {"error", "reject"}) # {} => issued'[k] = issued[k]]_vars

\* C3: a poller that has processed a terminal response (a completed or failed
\* status, or a fetch failure) has its interval cancelled and never has a
\* live timer again, however many terminal responses it processes.
C3_DoneHasNoLiveTimer ==
  \A k \in DOMAIN observed : observed[k] # {} => timers[k] = "cleared"

\* C4: no /send request is issued while the message box is empty: a click on
\* either send trigger that reaches startSend with an empty message shows the
\* notice and issues no request, and a poller exists only for a /send that
\* was answered.
C4_NoSendWithEmptyMessage ==
  /\ lastTask.request.url = "/send"
       => (messageBox # "" /\ lastTask.request.body.message = messageBox)
  /\ (lastTask.event \in SendButtons /\ lastTask.confirm # "no" /\ messageBox = "")
       => (lastTask.alert = "Please write a message" /\ lastTask.request = NoRequest)
  /\ Len(timers) = Len(sends)
  /\ \A k \in DOMAIN timers : timers[k] # "none" => sends[k] = "end"

C4_Witness ==
  /\ lastTask = Did("sendSelectedBtn", "Please write a message", "yes", NoRequest)
  /\ Len(previewData) = 3
  /\ sends = <<>>

\* C5: a click on upload with no file chosen issues no request, shows the
\* notice and leaves previewJobId, previewData and the table as they were.
C5_NoFileNoUpload ==
  [][(lastTask'.event = "uploadBtn" /\ fileInput = NoFile)
       => /\ lastTask'.alert = "Pick an Excel file first"
          /\ lastTask'.request = NoRequest
          /\ UNCHANGED <<previewJobId, previewData, table, uploads, sends, fetches>>]_vars

C5_Witness ==
  /\ lastTask = Did("uploadBtn", "Pick an Excel file first", "none", NoRequest)
  /\ fileInput = NoFile
  /\ Len(previewData) = 3
  /\ CheckedAt # {}

\* C6: gatherTargetsFromSelection(false) is exactly the rows at the checked
\* positions, in their original order, one element per checked row and no
\* null among them; a send-selected request with checked rows carries them.
C6_SelectedRowsInOrder ==
  LET g == gatherTargetsFromSelection(FALSE, previewData, table)
  IN /\ g = CheckedRows
     /\ Len(g) = Cardinality(CheckedAt)
     /\ \A i \in DOMAIN g : g[i] \notin {NULL, UNDEFINED}
     /\ (lastTask.event = "sendSelectedBtn" /\ lastTask.request # NoRequest /\ CheckedAt # {})
          => lastTask.request.body.targets = CheckedRows

\* rows 0 and 2 of a 3-row preview (positions 1 and 3 here) are checked and sent
C6_Witness ==
  /\ Len(previewData) = 3
  /\ CheckedAt = {1, 3}
  /\ lastTask.event = "sendSelectedBtn"
  /\ lastTask.request # NoRequest
  /\ lastTask.request.body.targets = <<previewData[1], previewData[3]>>

\* C7: gatherTargetsFromSelection(true) is the full preview sequence whatever
\* is checked, and a send-all request carries the full preview sequence.
C7_AllIsFullPreview ==
  /\ gatherTargetsFromSelection(TRUE, previewData, table) = previewData
  /\ (lastTask.event = "sendAllBtn" /\ lastTask.request # NoRequest)
       => lastTask.request.body.targets = previewData

C7_Witness ==
  /\ lastTask.event = "sendAllBtn"
  /\ lastTask.request # NoRequest
  /\ Len(lastTask.request.body.targets) = 3
  /\ CheckedAt = {2}

\* C8: the targets of a /send request are all rows of previewData as it is
\* when the request is issued.
C8_TargetsFromCurrentPreview ==
  lastTask.request.url = "/send"
    => \A i \in DOMAIN lastTask.request.body.targets :
         lastTask.request.body.targets[i] \in Range(previewData)

\* a selection of the second upload's preview is sent after it replaced the first
C8_Witness ==
  /\ lastTask.request.url = "/send"
  /\ lastTask.request.body.targets # <<>>
  /\ Len(uploads) = 2
  /\ \A k \in DOMAIN uploads : uploads[k].pc = "end"
  /\ uploads[1].file # uploads[2].file
  /\ previewData = FilePreview(uploads[2].file)

\* C9: a send-selected click with no row checked asks for confirmation; it
\* issues a /send request only when the user confirms, and then with the full
\* preview sequence as targets; when the user declines nothing is issued.
C9_FallbackNeedsConfirmation ==
  (lastTask.event = "sendSelectedBtn" /\ CheckedAt = {})
    => /\ lastTask.confirm \in {"yes", "no"}
       /\ lastTask.confirm = "no" => lastTask.request = NoRequest
       /\ lastTask.request # NoRequest
            => (lastTask.confirm = "yes" /\ lastTask.request.body.targets = previewData)

C9_Witness ==
  /\ lastTask.event = "sendSelectedBtn"
  /\ CheckedAt = {}
  /\ lastTask.confirm = "yes"
  /\ lastTask.request # NoRequest
  /\ Len(lastTask.request.body.targets) = 3

\* C10: the step that handles a non-success answer to /upload or to /preview
\* leaves previewJobId, previewData and the table with its selection as they
\* were.
C10_ErrorChangesNothing ==
  [][lastTask'.event \in {"uploadError", "previewError"}
       => UNCHANGED <<previewJobId, previewData, table>>]_vars

\* C11: the step that handles a non-success answer to /send shows the error
\* and aborts: it issues no request (no second /send), starts no poller and
\* does not reveal the progress region; and an attempt that ended without a
\* poller never gets one and never has a /progress request issued for it.
C11_SendErrorAborts ==
  [][\A k \in DOMAIN sends :
       /\ (sends[k] = "send" /\ sends'[k] = "end" /\ lastTask'.event = "sendError")
            => /\ lastTask'.alert # ""
               /\ lastTask'.request = NoRequest
               /\ Len(sends') = Len(sends)
               /\ timers'[k] = "none"
               /\ progressShown' = progressShown
       /\ (sends[k] = "end" /\ timers[k] = "none")
            => /\ sends'[k] = "end"
               /\ timers'[k] = "none"
               /\ issued'[k] = 0
               /\ \A f \in fetches' : f.job # k]_vars

\* a /send is refused while the poller of an earlier send is polling
C11_Witness ==
  /\ lastTask.event = "sendError"
  /\ lastTask.alert = "Send error: unknown"
  /\ \E k, j \in DOMAIN sends :
       sends[k] = "end" /\ timers[k] = "none" /\ timers[j] = "live" /\ issued[j] > 0

\* The upload runs awaiting /upload or /preview, and the send runs awaiting /send.
UploadsInFlight == {k \in DOMAIN uploads : uploads[k].pc # "end"}
SendsInFlight == {k \in DOMAIN sends : sends[k] = "send"}

\* C12: at most one upload (its /upload request or its /preview fetch) and at
\* most one send (its /send request) is pending at any time.
C12_NoConcurrentRuns ==
  /\ Cardinality(UploadsInFlight) <= 1
  /\ Cardinality(SendsInFlight) <= 1

\* The upload run whose handler finished in this step.
EndedNow(k) == uploads[k].pc # "end" /\ uploads'[k].pc = "end"

\* C13: the step that completes a successful upload (the /preview response of
\* its job is taken in) replaces the preview state and the selection:
\* previewData is the preview returned for that upload, the table has one row
\* per returned row and no checkbox is checked.
C13_UploadReplacesPreview ==
  [][\A k \in DOMAIN uploads :
       (EndedNow(k) /\ lastTask'.event = "previewResponse")
         => /\ previewData' = FilePreview(uploads[k].file)
            /\ Len(table') = Len(FilePreview(uploads[k].file))
            /\ \A i \in DOMAIN table' : ~table'[i].checked
            /\ previewAreaShown']_vars

\* the one-row preview of a second upload has replaced the three-row preview
\* of the first
C13_Witness ==
  /\ lastTask.event = "previewResponse"
  /\ Len(uploads) = 2
  /\ uploads[1] = [file |-> "f1", pc |-> "end"]
  /\ uploads[2] = [file |-> "f2", pc |-> "end"]
  /\ previewJobId = 2
  /\ Len(table) = 1
  /\ previewData = FilePreview("f2")

\* HTML escaping of text: each of & < > is replaced by its entity.
HtmlEscaped(s) ==
  ReplaceAll(ReplaceAll(ReplaceAll(s, "&", <<"&", "a", "m", "p", ";">>),
                        "<", <<"&", "l", "t", ";">>),
             ">", <<"&", "g", "t", ";">>)

\* C14: the text rendered into every cell of the table is the HTML-escaped
\* fullname or phone of its row: each of <, > and & is replaced by its entity.
C14_CellsAreHtmlEscaped ==
  \A i \in DOMAIN table \cap DOMAIN previewData :
    /\ table[i].fullname = HtmlEscaped(previewData[i].fullname)
    /\ table[i].phone = HtmlEscaped(previewData[i].phone)

C16_SelectAllOnlySetsCheckboxes ==
  [][lastTask'.event \in {"selectAllBtn", "deselectAllBtn"}
       => LET v == lastTask'.event = "selectAllBtn"
          IN /\ DOMAIN table' = DOMAIN table
             /\ \A i \in DOMAIN table :
                  table'[i] = [checked |-> v, fullname |-> table[i].fullname,
                               phone |-> table[i].phone]
             /\ lastTask'.request = NoRequest
             /\ lastTask'.alert = ""
             /\ UNCHANGED <<previewJobId, previewData, previewAreaShown, inputVars,
                            uploads, sends, displayVars, pollVars>>
             /\ gatherTargetsFromSelection(FALSE, previewData', table')
                  = (IF v THEN previewData' ELSE <<>>)]_vars

\* select-all on a three-row preview while a poller is live
C16_Witness ==
  /\ lastTask.event = "selectAllBtn"
  /\ CheckedAt = {1, 2, 3}
  /\ gatherTargetsFromSelection(FALSE, previewData, table) = FilePreview("f1")
  /\ \E k \in DOMAIN timers : timers[k] = "live"

\* C17: the table and previewData agree in every state: the table has one
\* checkbox per element of previewData and the row at position i shows
\* previewData[i], so what gatherTargetsFromSelection resolves a checked
\* position to is the row displayed there.
C17_TableMatchesPreviewData ==
  /\ Len(table) = Len(previewData)
  /\ \A i \in DOMAIN table :
       /\ table[i].fullname = escapeHtml(previewData[i].fullname)
       /\ table[i].phone = escapeHtml(previewData[i].phone)
       /\ table[i].checked => TargetAt(previewData, table, i) = previewData[i]

\* two uploads of different files overlapped and the /preview response of the
\* first arrived after that of the second
C17_Witness ==
  /\ Len(uploads) = 2
  /\ uploads[1] = [file |-> "f1", pc |-> "end"]
  /\ uploads[2] = [file |-> "f2", pc |-> "end"]
  /\ previewJobId = 2
  /\ previewData = FilePreview("f1")
  /\ CheckedAt = {2}

\* C18: when no upload is in flight, and the last upload to finish took in a
\* successful /preview response, previewData is the preview the backend
\* returned for the job that previewJobId names.
C18_PreviewBelongsToJob ==
  (UploadsInFlight = {} /\ lastTask.event = "previewResponse")
    => previewData = FilePreview(uploads[previewJobId].file)

\* The /progress requests of the poller of send run k that are in flight.
InFlight(k) == {f \in fetches : f.job = k}

\* C19: a poller has at most one /progress request in flight at a time.
C19_OneRequestInFlight ==
  \A k \in DOMAIN timers : Cardinality(InFlight(k)) <= 1

\* The pollers whose interval is live.
ActivePollers == {k \in DOMAIN timers : timers[k] = "live"}

\* C20: at most one poller is active at any time for the progress display
\* that all pollers write to.
C20_OneActivePoller ==
  Cardinality(ActivePollers) <= 1

\* ------------------------------------------------------- specifications
\* Spec is the whole page.  Its two halves share only the send handlers:
\* the poller reads nothing of the preview, selection or inputs, and the
\* upload, selection and send handlers read nothing of the poller or of the
\* progress display.  SpecUI and SpecPoll are the page seen with the other
\* half at rest; every behaviour of either is a behaviour of Spec.

\* The page with its polling timers not yet fired: upload, selection, send.
NextUI ==
  \/ PickFile \/ TypeMessage
  \/ ToggleCheckbox \/ SelectAll \/ DeselectAll
  \/ ClickUploadNoFile \/ ClickUpload
  \/ UploadOk \/ UploadErr \/ UploadThrow
  \/ PreviewOk \/ PreviewErr \/ PreviewThrow
  \/ ClickSendSelectedDeclined \/ ClickSendSelected \/ ClickSendAll
  \/ SendOk \/ SendErr \/ SendThrow

\* The page of a user who writes a message once and sends to all without
\* uploading: send, polling and the backend's progress.
NextPoll ==
  \/ (messageBox = "" /\ TypeMessage)
  \/ ClickSendAll
  \/ SendOk \/ SendErr \/ SendThrow
  \/ Tick \/ BackendServe
  \/ ProgressOk \/ ProgressErr \/ ProgressReject

Next == NextUI \/ NextPoll

Spec == Init /\ [][Next]_vars
SpecUI == Init /\ [][NextUI]_vars
SpecPoll == Init /\ [][NextPoll]_vars

\* SpecPoll with the scheduling of the browser and a backend that answers: an
\* interval that stays live fires again, a request in flight is answered, and
\* an answer that arrived is handled by the callback awaiting it.
SpecPollFair ==
  /\ SpecPoll
  /\ WF_vars(Tick)
  /\ WF_vars(BackendServe)
  /\ WF_vars(ProgressOk)

====
